---- MODULE Spec2Model ----
(***************************************************************************)
(* Model of the Obsidian journal index generator (src/main.py) and of the  *)
(* vault overview generator (src/beta/vault_overview.py/main.py).          *)
(*                                                                         *)
(* Text is a sequence of tokens.  A token is an atomic piece of text that  *)
(* is either whitespace (" " or the newline NL) or text with no whitespace *)
(* at either end.  The text "date:" and the texts ".md", "Overview",       *)
(* ".obsidian" and ".trash" occur only as whole tokens, so the regular     *)
(* expression search, endswith() and the substring tests of the source are *)
(* tests on tokens.  "updated_date:" is the two tokens "updated_", "date:".*)
(* A file is [exists, lines]: every write of the source ends its line, so *)
(* a file is a sequence of lines, each a sequence of tokens without the    *)
(* newline; a missing file has no lines.                                   *)
(*                                                                         *)
(* Journal/<year> itself exists (it is where the year index is written).   *)
(* The user fills the month directories Journal/<year>/<year><mm> before   *)
(* the indexes are first generated; from then on generate_index is run     *)
(* again and again, and between runs the user may write a creation date    *)
(* into the index documents.                                               *)
(***************************************************************************)
EXTENDS Integers, Sequences, FiniteSets, TLC

\* ---------------------------------------------------------------- bounds
\* months 1..MaxMonth are the ones the user makes directories for
MaxMonth == 2
\* the most files the user puts into the month directories, all together
MaxFiles == 2
\* the most directories the user makes in the vault
MaxVaultDirs == 2
\* the most files the user puts into the vault's directories, all together
MaxVaultFiles == 2

\* ------------------------------------------------------- program constants
\* range(1, 13)
NumMonths == 12

\* the year typed at the prompt
YEAR == "2024"

NL == "\n"
WS == {" ", NL}

Digits == <<"0", "1", "2", "3", "4", "5", "6", "7", "8", "9">>

\* str(n) inside an f-string, one token per digit
RECURSIVE Str(_)
Str(n) ==
    IF n < 10 THEN <<Digits[n + 1]>>
    ELSE Str(n \div 10) \o <<Digits[(n % 10) + 1]>>

\* f"{month:02d}"
MM(month) == <<Digits[(month \div 10) + 1], Digits[(month % 10) + 1]>>

\* datetime(int(year), month, 1).strftime('%B') under the de_CH locale
\* (Maerz stands for the name with its umlaut)
MonthNames ==
    <<"Januar", "Februar", "Maerz", "April", "Mai", "Juni", "Juli",
      "August", "September", "Oktober", "November", "Dezember">>

strftime_B(month) == MonthNames[month]

LowerNames ==
    <<"januar", "februar", "maerz", "april", "mai", "juni", "juli",
      "august", "september", "oktober", "november", "dezember">>

\* str.lower() on a month name or a tag
lower(name) ==
    IF \E i \in 1..NumMonths : MonthNames[i] = name
    THEN LowerNames[CHOOSE i \in 1..NumMonths : MonthNames[i] = name]
    ELSE name

\* datetime.now().strftime('%Y-%m-%d'): the days a run may happen on
Today == {"2025-01-11", "2025-01-12"}

\* the creation date a user writes into an index document by hand
UserDate == <<"2024-03-01">>

RECURSIVE Flat(_)
Flat(ss) == IF ss = <<>> THEN <<>> ELSE Head(ss) \o Flat(Tail(ss))

\* f.write(text + "\n"): one line
Line(toks) == <<toks>>

\* f.write("\n") after a finished line: an empty line
Blank == << <<>> >>

NoFile == [exists |-> FALSE, lines |-> <<>>]
File(ls) == [exists |-> TRUE, lines |-> ls]

\* f.read(): the lines, each with its newline, as one text
read(file) == Flat([i \in 1..Len(file.lines) |-> file.lines[i] \o <<NL>>])

\* ------------------------------------------------------------ file names
\* Notes of a month directory, without the YYYYMM all of them start with:
\* YYYYMM01.md, YYYYMM02_Trip.md, YYYYMM03_Overview.md
NoteNames ==
    << <<"01", ".md">>, <<"02", "_", "Trip", ".md">>,
       <<"03", "_", "Overview", ".md">> >>

\* other files a month directory may hold
OtherNames == << <<"cover", ".png">>, <<"draft", ".MD">> >>

\* f"Overview {year} {month:02d} Daily Notes.md"
MonthIndexName(month) ==
    <<"Overview", " ", YEAR, " ">> \o MM(month) \o <<" ", "Daily Notes", ".md">>

UserNames == {NoteNames[i] : i \in 1..Len(NoteNames)}
                \cup {OtherNames[i] : i \in 1..Len(OtherNames)}

\* every name of a month directory, in the order of Python's string
\* comparison: digits, then "O", then lower-case letters
NameOrder(month) == NoteNames \o <<MonthIndexName(month)>> \o OtherNames

\* sorted(os.listdir(month_dir))
sorted_listdir(names, month) ==
    SelectSeq(NameOrder(month), LAMBDA n : n \in names)

\* a test of the extension that takes upper case for lower case
endswith_md_anycase(entry) == entry # <<>> /\ entry[Len(entry)] \in {".md", ".MD"}

\* entry.endswith(".md")
endswith_md(entry) == entry # <<>> /\ entry[Len(entry)] = ".md"

\* "Overview" in entry
contains_Overview(entry) == \E i \in 1..Len(entry) : entry[i] = "Overview"

\* a loop that takes every month directory for present
path_exists_always(ds, month) == TRUE

\* os.path.exists(month_dir)
path_exists(ds, month) == month \in ds

\* ------------------------------------------------------ extract_metadata
\* str.strip()
RECURSIVE strip(_)
strip(s) ==
    IF s = <<>> THEN <<>>
    ELSE IF Head(s) \in WS THEN strip(Tail(s))
    ELSE IF s[Len(s)] \in WS THEN strip(SubSeq(s, 1, Len(s) - 1))
    ELSE s

\* the least index from `from` on whose token is in (stop = TRUE) or not in
\* (stop = FALSE) the set, or Len(c) + 1
Scan(c, from, set, stop) ==
    LET hit == {i \in from..Len(c) : (c[i] \in set) = stop}
    IN IF hit = {} THEN Len(c) + 1
       ELSE CHOOSE i \in hit : \A j \in hit : i <= j

\* an extraction that finds no date in any file
extract_metadata_none(index_file) == <<>>

\* re.search(r"date:\s*(.*)", content): the first "date:", then whitespace
\* (newlines too), then the rest of the line reached; group(1).strip()
extract_metadata(index_file) ==
    IF ~index_file.exists THEN <<>>
    ELSE LET content == read(index_file)
             at == Scan(content, 1, {"date:"}, TRUE)
         IN IF at > Len(content) THEN <<>>
            ELSE LET from == Scan(content, at + 1, WS, FALSE)
                     to == Scan(content, from, {NL}, TRUE)
                 IN strip(SubSeq(content, from, to - 1))

\* ------------------------------------------------------- write_metadata
\* the title default "Overview {year} Daily Notes", formatted
YearTitle == <<"Overview", " ", YEAR, " ", "Daily Notes">>

\* the tags default ["daily", "overview", "collection"]
BaseTags == <<"daily", "overview", "collection">>

TagLine(tag) == Line(<<" ", " ", "-", " ", tag>>)

\* what write_metadata writes into the freshly opened ("w") index file
write_metadata(old_date, found_months, title, tags, now) ==
    Line(<<"---">>)
    \o Line(<<"title:", " ">> \o title)
    \o Line(<<"author:", " ", "Serge Decker">>)
    \o Line(<<"type:", " ", "TableOfContents">>)
    \o (IF old_date # <<>> THEN Line(<<"date:", " ">> \o old_date)
        ELSE Line(<<"date:", " ">>))
    \o Line(<<"updated_", "date:", " ", now>>)
    \o Line(<<"tags:">>)
    \o Flat([i \in 1..Len(tags) |-> TagLine(tags[i])])
    \o Flat([i \in 1..Len(found_months) |-> TagLine(lower(found_months[i]))])
    \o TagLine(YEAR)
    \o Line(<<"---">>) \o Blank

\* ---------------------------------------------------- month_statistics
Months == [i \in 1..NumMonths |-> i]

\* the months for which os.path.exists(month_dir) holds, in loop order
FoundSeq(ds) == SelectSeq(Months, LAMBDA m : path_exists(ds, m))

\* os.listdir(month_dir) raises FileNotFoundError on a missing directory
listdir_raises(ds, month) == month \notin ds

\* [entry for entry in sorted(os.listdir(month_dir)) if entry.endswith(".md")]
md_entries(es, month) == SelectSeq(sorted_listdir(es[month], month), endswith_md)

RECURSIVE SumLen(_, _, _)
SumLen(es, ms, i) ==
    IF i > Len(ms) THEN 0
    ELSE Len(md_entries(es, ms[i])) + SumLen(es, ms, i + 1)

month_statistics(ds, es) ==
    LET ms == FoundSeq(ds)
    IN [found_months |-> [i \in 1..Len(ms) |-> strftime_B(ms[i])],
        total_notes |-> SumLen(es, ms, 1)]

\* ---------------------------------------------------- write_statistics
write_statistics(total_notes, ds, es) ==
    LET ms == FoundSeq(ds)
    IN Line(<<"##", " ", "Statistics">>) \o Blank
       \o Line(<<"**Total number of notes in", " ", YEAR, ":", " ">>
               \o Str(total_notes) \o <<"**">>) \o Blank
       \o Flat([i \in 1..Len(ms) |->
                  Line(<<strftime_B(ms[i]), ":", " ">>
                       \o Str(Len(md_entries(es, ms[i]))) \o <<" ", "notes">>)])
       \o Blank

\* ---------------------------------------------- write_table_of_contents
LinkLine(entry) == Line(<<"-", " ", "[[">> \o entry \o <<"]]">>)

\* entries that end in ".md" and do not contain "Overview"
toc_entries(es, month) ==
    SelectSeq(sorted_listdir(es[month], month),
              LAMBDA e : endswith_md(e) /\ ~contains_Overview(e))

write_table_of_contents(ds, es) ==
    LET ms == FoundSeq(ds)
    IN Line(<<"#", " ", "Journal", " ", YEAR>>) \o Blank
       \o Flat([i \in 1..Len(ms) |->
                  Line(<<"##", " ", strftime_B(ms[i])>>) \o Blank
                  \o LinkLine(<<"Overview", " ", YEAR, " ">> \o MM(ms[i])
                              \o <<" ", "Daily Notes">>)
                  \o Flat([k \in 1..Len(toc_entries(es, ms[i])) |->
                             LinkLine(toc_entries(es, ms[i])[k])])
                  \o Blank])

\* ------------------------------------------------- generate_month_index
\* The content of the month index after generate_month_index.  The index
\* file is created by write_metadata before the directory is listed, so the
\* listing is taken over the entries with the index file among them.
generate_month_index(month, es, old_file, now) ==
    LET old_date == extract_metadata(old_file)
        month_name == strftime_B(month)
        found_months == <<month_name>>
        title == <<"Overview", " ", YEAR, " ">> \o MM(month) \o <<" ", "Daily Notes">>
        tags == <<lower(month_name), YEAR>> \o BaseTags
        after == [es EXCEPT ![month] = @ \cup {MonthIndexName(month)}]
        listed == md_entries(after, month)
    IN write_metadata(old_date, found_months, title, tags, now)
       \o Line(<<"#", " ", "Journal", " ", month_name, " ", YEAR>>) \o Blank
       \o Flat([k \in 1..Len(listed) |-> LinkLine(listed[k])])
       \o Blank

\* ------------------------------------------------------- generate_index
\* The content of the year index after generate_index: the old date is read,
\* the file removed, the statistics taken, the file written.
year_index_content(ds, es, old_file, now) ==
    LET old_date == extract_metadata(old_file)
        st == month_statistics(ds, es)
    IN write_metadata(old_date, st.found_months, YearTitle, BaseTags, now)
       \o write_statistics(st.total_notes, ds, es)
       \o write_table_of_contents(ds, es)

\* a month the loops take for present although its directory is not there:
\* os.listdir raises and the run ends in a traceback
run_raises(ds) ==
    \E m \in 1..NumMonths : path_exists(ds, m) /\ listdir_raises(ds, m)

\* --------------------------------------------- reading an index document
IsDateLine(l) == l # <<>> /\ Head(l) = "date:"
IsUpdatedLine(l) == Len(l) >= 2 /\ l[1] = "updated_" /\ l[2] = "date:"

\* the value of the document's date field: what follows the key on the
\* first line that starts with "date:", trimmed; <<>> when there is none
DateField(file) ==
    LET ls == SelectSeq(file.lines, IsDateLine)
    IN IF ls = <<>> THEN <<>> ELSE strip(Tail(ls[1]))

\* the document without its updated_date line
WithoutUpdated(file) ==
    [exists |-> file.exists,
     lines |-> SelectSeq(file.lines, LAMBDA l : ~IsUpdatedLine(l))]

\* ============================================================ the vault
\* A directory of the vault is its path below the vault root: the sequence
\* of the names on the way, each name a sequence of tokens.  The root is <<>>.
Root == <<>>

\* the directories a user may make: Journal, Journal/2024, .obsidian,
\* .obsidian/plugins, old.obsidian, .trash
DirUniverse ==
    { << <<"Journal">> >>, << <<"Journal">>, <<"2024">> >>,
      << <<".obsidian">> >>, << <<".obsidian">>, <<"plugins">> >>,
      << <<"old", ".obsidian">> >>, << <<".trash">> >> }

\* the files a user may put into a directory, each with the length of its
\* content in characters
VaultFiles ==
    { [name |-> <<"note", ".md">>, len |-> 5],
      [name |-> <<"todo", ".md">>, len |-> 9],
      [name |-> <<"image", ".png">>, len |-> 7] }

OverviewName == <<"overview", ".md">>

\* datetime.now().strftime('%Y-%m-%d %H:%M:%S')
VaultNow == {"2025-01-12 10:00:00", "2025-01-12 10:05:00"}

Parent(path) == SubSeq(path, 1, Len(path) - 1)

\* os.path.basename(root)
basename(path) == path[Len(path)]

\* ".obsidian" in root or ".trash" in root: a test on the text of the path.
\* The vault path \\Orion\home\obsidian itself holds neither text.
skipped(path) ==
    \E i \in 1..Len(path) : \E k \in 1..Len(path[i]) :
        path[i][k] \in {".obsidian", ".trash"}

\* os.path.relpath(root, vault_path).count(os.sep): "." for the vault itself
level(path) == IF path = Root THEN 0 ELSE Len(path) - 1

Hashes == <<"#", "##", "###", "####">>

\* file.endswith(".md")
file_endswith_md(name) == name # <<>> /\ name[Len(name)] = ".md"

\* file[:-3]: the name without its last three characters
cut3(name) ==
    LET front == SubSeq(name, 1, Len(name) - 1)
        ext == name[Len(name)]
    IN IF ext \in {".md", ".MD"} THEN front
       ELSE IF ext = ".png" THEN front \o <<".">>
       ELSE front

\* len(note_file.read()).  overview.md is open for writing all through the
\* run: it was emptied, and the little that is written stays in the buffer.
read_len(file) == IF file.name = OverviewName THEN 0 ELSE file.len

\* os.walk(vault_path), top down: a directory, then its directories in the
\* order the file system gives them, each with all below it
RECURSIVE walk(_, _)
walk(ds, path) ==
    LET sub == SelectSeq(ds, LAMBDA d : Parent(d) = path)
    IN <<path>> \o Flat([i \in 1..Len(sub) |-> walk(ds, sub[i])])

Unbound == [bound |-> FALSE, val |-> 0]

\* one round of "for file in files": char_count is set for a name that ends
\* in .md, and the line is written for every name.  Reading char_count
\* before any .md file was read raises UnboundLocalError.
file_step(acc, file) ==
    CHOOSE r \in
      { IF a.raised THEN a
        ELSE LET cc == IF file_endswith_md(file.name)
                       THEN [bound |-> TRUE, val |-> read_len(file)]
                       ELSE a.char_count
             IN IF ~cc.bound
                THEN [a EXCEPT !.raised = TRUE]
                ELSE [a EXCEPT !.char_count = cc,
                               !.out = @ \o Line(<<"-", " ", "[[">> \o cut3(file.name)
                                                 \o <<"]]", " ", "(">>
                                                 \o Str(cc.val) \o <<")">>)]
        : a \in {acc} } : TRUE

RECURSIVE files_loop(_, _, _)
files_loop(acc, files, i) ==
    IF i > Len(files) THEN acc
    ELSE files_loop(file_step(acc, files[i]), files, i + 1)

\* one round of "for root, dirs, files in os.walk(vault_path)"
dir_step(acc, path, files) ==
    CHOOSE r \in
      { IF a.raised \/ skipped(path) THEN a
        ELSE LET headed ==
                   IF level(path) > 0
                   THEN [a EXCEPT !.out = @ \o Line(<<Hashes[level(path) + 1], " ">>
                                                     \o basename(path))]
                   ELSE a
                 done == files_loop(headed, files, 1)
             IN IF done.raised THEN done
                ELSE [done EXCEPT !.out = @ \o Blank]
        : a \in {acc} } : TRUE

RECURSIVE dirs_loop(_, _, _, _)
dirs_loop(acc, order, listing, i) ==
    IF i > Len(order) THEN acc
    ELSE dirs_loop(dir_step(acc, order[i], listing[order[i]]), order, listing, i + 1)

\* generate_vault_overview(vault_path) at the time `now`, over the
\* directories ds and their files: what it writes, and whether it raised
generate_vault_overview(ds, listing, now) ==
    dirs_loop([out |-> Line(<<"#", " ", "Vault Uebersicht">>) \o Blank
                       \o Line(<<"Erstellt am:", " ", now>>) \o Blank,
               char_count |-> Unbound,
               raised |-> FALSE],
              walk(ds, Root), listing, 1)

VARIABLES
    dirs,        \* the months whose directory exists
    entries,     \* month -> the names in its directory
    yearIndex,   \* the file Overview {year} DailyNotes.md
    monthIndex,  \* month -> the file Overview {year} {mm} Daily Notes.md
    last,        \* the last run of generate_index, while nothing else has
                 \* written since: what it found and what it changed
    vaultDirs,   \* the directories of the vault, in the file system's order
    vaultFiles,  \* directory -> its files, in the file system's order
    overview,    \* the file overview.md of the vault root
    vaultLast    \* the last run of generate_vault_overview, while nothing
                 \* else has written since

journal == <<dirs, entries, yearIndex, monthIndex, last>>
vault == <<vaultDirs, vaultFiles, overview, vaultLast>>
vars == <<dirs, entries, yearIndex, monthIndex, last,
          vaultDirs, vaultFiles, overview, vaultLast>>

\* no run yet, or the user has written since the last one
NoRun ==
    [ran |-> FALSE, consecutive |-> FALSE, raised |-> FALSE,
     dirs |-> {}, entries |-> [m \in 1..NumMonths |-> {}],
     yearExisted |-> FALSE, yearDate |-> <<>>,
     monthExisted |-> {}, monthDate |-> [m \in 1..NumMonths |-> <<>>],
     firstYearDate |-> <<>>, firstMonthDate |-> [m \in 1..NumMonths |-> <<>>],
     yearSame |-> FALSE, monthSame |-> {}]

\* The record of a run: whether it followed another run directly, whether it
\* ended in a traceback, the directories and index documents as it found
\* them, the date fields as the first of the runs in direct succession found
\* them, and which index documents it left as they were but for the
\* updated_date line.
RunRecord(raised, newYear, newMonth) ==
    [ran |-> TRUE, consecutive |-> last.ran /\ ~last.raised, raised |-> raised,
     dirs |-> dirs, entries |-> entries,
     yearExisted |-> yearIndex.exists,
     yearDate |-> DateField(yearIndex),
     monthExisted |-> {m \in 1..NumMonths : monthIndex[m].exists},
     monthDate |-> [m \in 1..NumMonths |-> DateField(monthIndex[m])],
     firstYearDate |-> IF last.ran /\ ~last.raised THEN last.firstYearDate
                       ELSE DateField(yearIndex),
     firstMonthDate |-> [m \in 1..NumMonths |->
                           IF last.ran /\ ~last.raised THEN last.firstMonthDate[m]
                           ELSE DateField(monthIndex[m])],
     yearSame |-> WithoutUpdated(newYear) = WithoutUpdated(yearIndex),
     monthSame |-> {m \in 1..NumMonths :
                      WithoutUpdated(newMonth[m]) = WithoutUpdated(monthIndex[m])}]

NoVaultRun == [ran |-> FALSE, raised |-> FALSE, order |-> <<>>]

Init ==
    /\ dirs = {}
    /\ entries = [m \in 1..NumMonths |-> {}]
    /\ yearIndex = NoFile
    /\ monthIndex = [m \in 1..NumMonths |-> NoFile]
    /\ last = NoRun
    /\ vaultDirs = <<>>
    /\ vaultFiles = [d \in DirUniverse \cup {Root} |-> <<>>]
    /\ overview = NoFile
    /\ vaultLast = NoVaultRun

\* generate_index(year), run on the day `now`
GenerateIndex(now) ==
    /\ dirs' = dirs
    /\ IF run_raises(dirs)
       THEN \* month_statistics raises after the old index was removed
            /\ yearIndex' = NoFile
            /\ UNCHANGED <<entries, monthIndex>>
       ELSE /\ yearIndex' = File(year_index_content(dirs, entries, yearIndex, now))
            /\ monthIndex' =
                 [m \in 1..NumMonths |->
                    IF path_exists(dirs, m)
                    THEN File(generate_month_index(m, entries, monthIndex[m], now))
                    ELSE monthIndex[m]]
            /\ entries' =
                 [m \in 1..NumMonths |->
                    IF path_exists(dirs, m)
                    THEN entries[m] \cup {MonthIndexName(m)}
                    ELSE entries[m]]
    /\ last' = RunRecord(run_raises(dirs), yearIndex', monthIndex')
    /\ UNCHANGED vault

\* the user makes the directory of a month
MakeMonthDir(m) ==
    /\ ~yearIndex.exists
    /\ m \notin dirs
    /\ dirs' = dirs \cup {m}
    /\ last' = NoRun
    /\ UNCHANGED <<entries, yearIndex, monthIndex>>
    /\ UNCHANGED vault

UserFiles == {p \in (1..NumMonths) \X UserNames : p[2] \in entries[p[1]]}

\* the user puts a file into a month directory
AddFile(m, name) ==
    /\ ~yearIndex.exists
    /\ m \in dirs
    /\ name \notin entries[m]
    /\ Cardinality(UserFiles) < MaxFiles
    /\ entries' = [entries EXCEPT ![m] = @ \cup {name}]
    /\ last' = NoRun
    /\ UNCHANGED <<dirs, yearIndex, monthIndex>>
    /\ UNCHANGED vault

\* the file with the value of its date field replaced by `date`
WithDate(file, date) ==
    File([i \in 1..Len(file.lines) |->
            IF IsDateLine(file.lines[i]) THEN <<"date:", " ">> \o date
            ELSE file.lines[i]])

\* the user writes the creation date into the index documents by hand
SetDates ==
    /\ yearIndex.exists
    /\ \/ DateField(yearIndex) # UserDate
       \/ \E m \in 1..NumMonths :
             monthIndex[m].exists /\ DateField(monthIndex[m]) # UserDate
    /\ yearIndex' = WithDate(yearIndex, UserDate)
    /\ monthIndex' = [m \in 1..NumMonths |->
                        IF monthIndex[m].exists
                        THEN WithDate(monthIndex[m], UserDate)
                        ELSE monthIndex[m]]
    /\ last' = NoRun
    /\ UNCHANGED <<dirs, entries>>
    /\ UNCHANGED vault

Next ==
    \/ \E now \in Today : GenerateIndex(now)
    \/ \E m \in 1..MaxMonth : MakeMonthDir(m)
    \/ \E m \in 1..MaxMonth, name \in UserNames : AddFile(m, name)
    \/ SetDates

Spec == Init /\ [][Next]_vars

\* ---------------------------------------------------- the vault's actions
\* seq with x put in at position pos
InsertAt(seq, pos, x) ==
    SubSeq(seq, 1, pos - 1) \o <<x>> \o SubSeq(seq, pos, Len(seq))

HasOverview == \E i \in 1..Len(vaultFiles[Root]) : vaultFiles[Root][i].name = OverviewName

\* generate_vault_overview(vault_path) at the time `now`.  open(..., "w")
\* makes overview.md before the walk lists the root; pos is where the file
\* system lists a new overview.md among the root's files.
GenerateVaultOverview(now, pos) ==
    /\ pos \in 1..(Len(vaultFiles[Root]) + 1)
    /\ HasOverview => pos = 1
    /\ LET listing == IF HasOverview THEN vaultFiles
                      ELSE [vaultFiles EXCEPT
                              ![Root] = InsertAt(@, pos, [name |-> OverviewName, len |-> 0])]
           run == generate_vault_overview(vaultDirs, listing, now)
       IN /\ vaultFiles' = listing
          /\ overview' = File(run.out)
          /\ vaultLast' = [ran |-> TRUE, raised |-> run.raised,
                           order |-> walk(vaultDirs, Root)]
    /\ UNCHANGED vaultDirs
    /\ UNCHANGED journal

\* the user makes a directory in the vault
MakeVaultDir(path) ==
    /\ Len(vaultDirs) < MaxVaultDirs
    /\ \A i \in 1..Len(vaultDirs) : vaultDirs[i] # path
    /\ Parent(path) = Root \/ \E i \in 1..Len(vaultDirs) : vaultDirs[i] = Parent(path)
    /\ vaultDirs' = Append(vaultDirs, path)
    /\ vaultLast' = NoVaultRun
    /\ UNCHANGED <<vaultFiles, overview>>
    /\ UNCHANGED journal

UserVaultFiles ==
    {p \in (DirUniverse \cup {Root}) \X VaultFiles :
        \E i \in 1..Len(vaultFiles[p[1]]) : vaultFiles[p[1]][i] = p[2]}

\* the user puts a file into a directory of the vault
AddVaultFile(path, file, pos) ==
    /\ path = Root \/ \E i \in 1..Len(vaultDirs) : vaultDirs[i] = path
    /\ <<path, file>> \notin UserVaultFiles
    /\ Cardinality(UserVaultFiles) < MaxVaultFiles
    /\ pos \in 1..(Len(vaultFiles[path]) + 1)
    /\ vaultFiles' = [vaultFiles EXCEPT ![path] = InsertAt(@, pos, file)]
    /\ vaultLast' = NoVaultRun
    /\ UNCHANGED <<vaultDirs, overview>>
    /\ UNCHANGED journal

NextVault ==
    \/ \E now \in VaultNow, pos \in 1..(MaxVaultFiles + 2) : GenerateVaultOverview(now, pos)
    \/ \E path \in DirUniverse : MakeVaultDir(path)
    \/ \E path \in DirUniverse \cup {Root}, file \in VaultFiles,
          pos \in 1..(MaxVaultFiles + 1) : AddVaultFile(path, file, pos)

SpecVault == Init /\ [][NextVault]_vars

\* ------------------------------------------- what an index document says
\* the least index of a line equal to l from `from` on, or Len(ls) + 1
LineAt(ls, from, l) ==
    LET hit == {i \in from..Len(ls) : ls[i] = l}
    IN IF hit = {} THEN Len(ls) + 1
       ELSE CHOOSE i \in hit : \A j \in hit : i <= j

\* the entries of the tags list, in order
TagsOf(file) ==
    LET ls == file.lines
        i == LineAt(ls, 1, <<"tags:">>)
        j == LineAt(ls, i + 1, <<"---">>)
    IN [k \in 1..(j - i - 1) |-> SubSeq(ls[i + k], 5, Len(ls[i + k]))]

DigitVal(d) == (CHOOSE i \in 1..10 : Digits[i] = d) - 1

RECURSIVE NumVal(_, _)
NumVal(ds, n) == IF n = 0 THEN 0 ELSE NumVal(ds, n - 1) * 10 + DigitVal(ds[n])

IsStatLine(l, month) ==
    Len(l) >= 6 /\ l[1] = MonthNames[month] /\ l[2] = ":" /\ l[Len(l)] = "notes"

HasStat(file, month) ==
    \E i \in 1..Len(file.lines) : IsStatLine(file.lines[i], month)

\* the number on the statistics line of a month
StatCount(file, month) ==
    LET l == file.lines[CHOOSE i \in 1..Len(file.lines) :
                          IsStatLine(file.lines[i], month)]
    IN NumVal(SubSeq(l, 4, Len(l) - 2), Len(l) - 5)

IsTotalLine(l) == l # <<>> /\ l[1] = "**Total number of notes in"

\* the year total of the statistics header
TotalOf(file) ==
    LET l == file.lines[CHOOSE i \in 1..Len(file.lines) : IsTotalLine(file.lines[i])]
    IN NumVal(SubSeq(l, 6, Len(l) - 1), Len(l) - 6)

HasHeading(file, month) ==
    \E i \in 1..Len(file.lines) : file.lines[i] = <<"##", " ", MonthNames[month]>>

\* the targets of the links that follow line h and its empty line, up to the
\* next empty line
LinksAfter(ls, h) ==
    LET e == LineAt(ls, h + 2, <<>>)
    IN [k \in 1..(e - h - 2) |-> SubSeq(ls[h + 1 + k], 4, Len(ls[h + 1 + k]) - 1)]

\* the links under a month's heading of the year index
TocLinks(file, month) ==
    LinksAfter(file.lines, LineAt(file.lines, 1, <<"##", " ", MonthNames[month]>>))

\* the links of a month index
MonthLinks(file, month) ==
    LinksAfter(file.lines,
               LineAt(file.lines, 1,
                      <<"#", " ", "Journal", " ", MonthNames[month], " ", YEAR>>))

Range(seq) == {seq[i] : i \in 1..Len(seq)}

IsNote(name) == name # <<>> /\ name[Len(name)] = ".md"

NotesIn(es, month) == {e \in es[month] : IsNote(e)}

RECURSIVE SumOver(_, _)
SumOver(f, S) ==
    IF S = {} THEN 0
    ELSE LET x == CHOOSE y \in S : TRUE IN f[x] + SumOver(f, S \ {x})

\* a run of generate_index has just ended, without a traceback
AfterRun == last.ran /\ ~last.raised

\* ----------------------------------------------------------------- claims
\* C1: two runs of generate_index in direct succession leave the year index
\* and every month index as they were but for the updated_date line.
C1_Idempotence ==
    (AfterRun /\ last.consecutive) =>
        /\ last.yearSame
        /\ \A m \in dirs : m \in last.monthSame

\* C2: an index document that had a non-empty date D before runs in direct
\* succession has the date D after them; an index document that did not
\* exist before a run has an empty date after it.  Year and month indexes.
C2_DatePreservation ==
    AfterRun =>
        /\ last.yearExisted /\ last.firstYearDate # <<>>
              => DateField(yearIndex) = last.firstYearDate
        /\ ~last.yearExisted => DateField(yearIndex) = <<>>
        /\ \A m \in dirs :
              /\ m \in last.monthExisted /\ last.firstMonthDate[m] # <<>>
                    => DateField(monthIndex[m]) = last.firstMonthDate[m]
              /\ m \notin last.monthExisted => DateField(monthIndex[m]) = <<>>

\* C2 witness: a second run in direct succession that found the date the
\* user wrote and kept it, in the year index and in a month index
C2_Witness ==
    /\ AfterRun /\ last.consecutive
    /\ last.firstYearDate = UserDate /\ DateField(yearIndex) = UserDate
    /\ \E m \in dirs :
          last.firstMonthDate[m] = UserDate /\ DateField(monthIndex[m]) = UserDate

\* C3: extract_metadata returns the trimmed value of the file's date field,
\* and the empty value when the file is missing or the field is empty.
C3_ExtractIsDateField ==
    /\ extract_metadata(yearIndex) = DateField(yearIndex)
    /\ \A m \in 1..NumMonths :
          extract_metadata(monthIndex[m]) = DateField(monthIndex[m])

\* C4: after generate_index the month index of every month directory lists
\* the links the year index lists under that month: the .md notes of the
\* directory without the month's own index document.
C4_MonthIndexContent ==
    AfterRun =>
        \A m \in dirs :
            /\ MonthLinks(monthIndex[m], m) = Tail(TocLinks(yearIndex, m))
            /\ Range(MonthLinks(monthIndex[m], m))
                  = NotesIn(entries, m) \ {MonthIndexName(m)}

\* C5: the links under a month's heading never hold the month's own index
\* document, while the month's statistics line and the year total count it,
\* also when this very run created it.
C5_ExclusionAsymmetry ==
    AfterRun =>
        /\ \A m \in dirs :
              /\ MonthIndexName(m) \notin Range(TocLinks(yearIndex, m))
              /\ MonthIndexName(m) \in entries[m]
              /\ StatCount(yearIndex, m) = Cardinality(NotesIn(entries, m))
        /\ TotalOf(yearIndex)
              = SumOver([m \in 1..NumMonths |-> Cardinality(NotesIn(entries, m))], dirs)

ExpectedYearTags ==
    [i \in 1..Len(BaseTags) |-> <<BaseTags[i]>>]
    \o [i \in 1..Cardinality(dirs) |->
          <<LowerNames[SelectSeq(Months, LAMBDA m : m \in dirs)[i]]>>]
    \o << <<YEAR>> >>

\* the tag lists the claim allows a month index: the base tags, the month's
\* own name or no sub-period at all, and the year or year and month as key
ExpectedMonthTags(m) ==
    {[i \in 1..Len(BaseTags) |-> <<BaseTags[i]>>] \o sub \o <<key>> :
        sub \in {<<>>, << <<LowerNames[m]>> >>},
        key \in {<<YEAR>>, <<YEAR>> \o MM(m)}}

\* C6: the tags of every index document are daily, overview, collection, the
\* lower-cased names of the populated sub-periods in order, then the scope's
\* own key, and nothing else.
C6_TagSequence ==
    AfterRun =>
        /\ TagsOf(yearIndex) = ExpectedYearTags
        /\ \A m \in dirs : TagsOf(monthIndex[m]) \in ExpectedMonthTags(m)

\* C7: the statistics line of every month directory gives the number of its
\* entries that end in ".md", whatever else the directory holds, and the
\* year total is the sum of the numbers on the statistics lines.
C7_CountCorrectness ==
    AfterRun =>
        /\ \A m \in last.dirs :
              /\ HasStat(yearIndex, m)
              /\ StatCount(yearIndex, m) = Cardinality(NotesIn(last.entries, m))
        /\ TotalOf(yearIndex)
              = SumOver([m \in 1..NumMonths |->
                           IF m \in last.dirs THEN StatCount(yearIndex, m) ELSE 0],
                        last.dirs)

\* C7 witness: a run over a month directory with a note and another file
C7_Witness ==
    /\ AfterRun
    /\ \E m \in last.dirs :
          /\ Cardinality(NotesIn(last.entries, m)) >= 2
          /\ last.entries[m] \ NotesIn(last.entries, m) # {}
          /\ StatCount(yearIndex, m) = Cardinality(NotesIn(last.entries, m))

IsNoteLine(l) == l # <<>> /\ l[1] = "-"

IsHeadingLine(l) == l # <<>> /\ l[1] \in Range(Hashes)

\* the lines below the title and the time of creation
Body(file) == SubSeq(file.lines, 5, Len(file.lines))

\* the line of a note: its name without ".md" and the length of its content
NoteLine(file) ==
    <<"-", " ", "[[">> \o SubSeq(file.name, 1, Len(file.name) - 1)
    \o <<"]]", " ", "(">> \o Str(read_len(file)) \o <<")">>

\* a directory named .obsidian or .trash, or one beneath such a directory
Excluded(path) ==
    \E i \in 1..Len(path) : path[i] \in {<<".obsidian">>, <<".trash">>}

\* C9: generate_vault_overview runs to its end and writes, for every
\* directory it visits, one line per file whose name ends in ".md" with the
\* length of that file's content, and no line for any other file.
C9_VaultNoteLines ==
    vaultLast.ran =>
        /\ ~vaultLast.raised
        /\ SelectSeq(Body(overview), IsNoteLine)
              = Flat([i \in 1..Len(vaultLast.order) |->
                        IF skipped(vaultLast.order[i]) THEN <<>>
                        ELSE LET notes == SelectSeq(vaultFiles[vaultLast.order[i]],
                                                    LAMBDA f : IsNote(f.name))
                             IN [k \in 1..Len(notes) |-> NoteLine(notes[k])]])

\* C10: generate_vault_overview writes a heading, of a level given by the
\* depth, for every directory below the vault root but those named
\* .obsidian or .trash and those beneath them; a directory whose name only
\* contains one of the two names has its heading.
C10_VaultHeadings ==
    (vaultLast.ran /\ ~vaultLast.raised) =>
        \E off \in {0, 1} :
            SelectSeq(Body(overview), IsHeadingLine)
              = Flat([i \in 1..Len(vaultLast.order) |->
                        LET d == vaultLast.order[i]
                        IN IF d = Root \/ Excluded(d) THEN <<>>
                           ELSE << <<Hashes[Len(d) + off], " ">> \o d[Len(d)] >>])
====
